---- MODULE Spec2Model ----
(***************************************************************************)
(* Model of src/css.rs of azul: the rule builder of Css::new_from_str, the *)
(* dynamic-property resolver determine_static_or_dynamic_css_property, the *)
(* Css value object with its hot-reload, and the per-frame FakeCss         *)
(* override table.                                                         *)
(*                                                                         *)
(* Rust strings are TLA+ strings (Len, SubSeq and \o work character-wise). *)
(* Option<T> is a sequence: <<>> is None, <<x>> is Some(x).                *)
(***************************************************************************)
EXTENDS Integers, Sequences, FiniteSets, TLC

(***************************************************************************)
(* str helpers (std::str), computed the way the library computes them.     *)
(***************************************************************************)

\* The characters of the model's texts, in ascending byte order.
Alphabet == " 0123456789[]abcdefghijklmnopqrstuvwxyz|"

CharAt(s, i) == SubSeq(s, i, i)

RECURSIVE IndexIn(_, _, _)
IndexIn(c, s, i) ==
    IF i > Len(s) THEN 0
    ELSE IF CharAt(s, i) = c THEN i
    ELSE IndexIn(c, s, i + 1)

\* The byte value of a character, up to an order-preserving renumbering.
Ord(c) == IndexIn(c, Alphabet, 1)

\* char::is_whitespace
is_whitespace(c) == c = " "

\* char::is_numeric
is_numeric(c) == c \in {"0", "1", "2", "3", "4", "5", "6", "7", "8", "9"}

starts_with(s, p) == Len(s) >= Len(p) /\ SubSeq(s, 1, Len(p)) = p

ends_with(s, p) ==
    Len(s) >= Len(p) /\ SubSeq(s, Len(s) - Len(p) + 1, Len(s)) = p

RECURSIVE trim_left(_)
trim_left(s) ==
    IF Len(s) > 0 /\ is_whitespace(CharAt(s, 1))
    THEN trim_left(SubSeq(s, 2, Len(s)))
    ELSE s

RECURSIVE trim_right(_)
trim_right(s) ==
    IF Len(s) > 0 /\ is_whitespace(CharAt(s, Len(s)))
    THEN trim_right(SubSeq(s, 1, Len(s) - 1))
    ELSE s

trim(s) == trim_right(trim_left(s))

is_empty(s) == Len(s) = 0

\* str::trim_left_matches: removes every repetition of the prefix.
RECURSIVE trim_left_matches(_, _)
trim_left_matches(s, p) ==
    IF starts_with(s, p)
    THEN trim_left_matches(SubSeq(s, Len(p) + 1, Len(s)), p)
    ELSE s

\* str::trim_right_matches: removes every repetition of the suffix.
RECURSIVE trim_right_matches(_, _)
trim_right_matches(s, p) ==
    IF ends_with(s, p)
    THEN trim_right_matches(SubSeq(s, 1, Len(s) - Len(p)), p)
    ELSE s

\* str::splitn(2, c) for a one-character pattern: the parts, at most two.
splitn2(s, c) ==
    LET i == IndexIn(c, s, 1)
    IN  IF i = 0 THEN <<s>>
        ELSE <<SubSeq(s, 1, i - 1), SubSeq(s, i + 1, Len(s))>>

\* Ord for str: byte-wise lexicographic, a proper prefix first.
RECURSIVE StrLess(_, _)
StrLess(a, b) ==
    IF Len(b) = 0 THEN FALSE
    ELSE IF Len(a) = 0 THEN TRUE
    ELSE IF CharAt(a, 1) = CharAt(b, 1)
         THEN StrLess(SubSeq(a, 2, Len(a)), SubSeq(b, 2, Len(b)))
         ELSE Ord(CharAt(a, 1)) < Ord(CharAt(b, 1))

(***************************************************************************)
(* Result and Option values.                                               *)
(***************************************************************************)

None == <<>>
Some(x) == <<x>>
is_some(o) == Len(o) = 1
unwrap(o) == o[1]

Ok(v) == [ok |-> TRUE, val |-> v]
Err(e) == [ok |-> FALSE, val |-> e]

(***************************************************************************)
(* The typed property parser, css_parser::ParsedCssProperty::from_kv: the  *)
(* collaborator of section 6, (key, value) -> typed value or typed error.  *)
(* A typed value is <<kind, value>>; an error is <<error name, argument>>. *)
(***************************************************************************)

TextAlignValues == {"center", "left", "right"}
WidthValues == {"400px", "10px"}

from_kv(key, value) ==
    IF key = "text-align"
    THEN IF value \in TextAlignValues
         THEN Ok(<<"TextAlign", value>>)
         ELSE Err(<<"InvalidValueErr", value>>)
    ELSE IF key = "width"
    THEN IF value \in WidthValues
         THEN Ok(<<"Width", value>>)
         ELSE Err(<<"PixelParseError", value>>)
    ELSE Err(<<"UnsupportedCssKey", key>>)

\* The property kind of a typed value (the enum variant of ParsedCssProperty).
KindOf(parsed) == parsed[1]

(***************************************************************************)
(* DynamicCssParseError and CssDeclaration.                                *)
(***************************************************************************)

\* A unit variant of DynamicCssParseError: UnclosedBraces, NoDefaultCase, NoId,
\* InvalidId, EmptyBraces.
DynErr(name) == <<name>>

\* impl From<CssParsingError> for DynamicCssParseError
DynUnexpectedValue(e) == <<"UnexpectedValue", e>>

Static(parsed) == [variant |-> "Static", dynamic_id |-> "", prop |-> parsed]
Dynamic(id, parsed) == [variant |-> "Dynamic", dynamic_id |-> id, prop |-> parsed]

START_BRACE == "[["
END_BRACE == "]]"

\* Mutant: the default is parsed before the id is validated.
DynamicArm_DefaultFirst(key, value0) ==
    LET value == trim(trim_right_matches(trim_left_matches(value0, START_BRACE),
                                         END_BRACE))
        pipe_split == splitn2(value, "|")
    IN  IF Len(pipe_split) = 1
        THEN LET id == pipe_split[1]
             IN  IF is_empty(trim(id)) THEN Err(DynErr("EmptyBraces"))
                 ELSE IF from_kv(key, id).ok THEN Err(DynErr("NoId"))
                 ELSE Err(DynErr("NoDefaultCase"))
        ELSE LET dynamic_id == trim(pipe_split[1])
                 default_case == trim(pipe_split[2])
             IN  IF is_empty(dynamic_id) /\ is_empty(default_case)
                 THEN Err(DynErr("EmptyBraces"))
                 ELSE IF is_empty(dynamic_id) THEN Err(DynErr("NoId"))
                 ELSE IF is_empty(default_case) THEN Err(DynErr("NoDefaultCase"))
                 ELSE LET default_case_parsed == from_kv(key, default_case)
                      IN  IF ~default_case_parsed.ok
                          THEN Err(DynUnexpectedValue(default_case_parsed.val))
                          ELSE IF \/ is_numeric(CharAt(dynamic_id, 1))
                                  \/ from_kv(key, dynamic_id).ok
                          THEN Err(DynErr("InvalidId"))
                          ELSE Ok(Dynamic(dynamic_id, default_case_parsed.val))

\* Mutant: without a separator, NoId and NoDefaultCase are taken for each
\* other.
DynamicArm_NoPipeSwapped(key, value0) ==
    LET value == trim(trim_right_matches(trim_left_matches(value0, START_BRACE),
                                         END_BRACE))
        pipe_split == splitn2(value, "|")
    IN  IF Len(pipe_split) = 1
        THEN LET id == pipe_split[1]
             IN  IF is_empty(trim(id)) THEN Err(DynErr("EmptyBraces"))
                 ELSE IF from_kv(key, id).ok THEN Err(DynErr("NoDefaultCase"))
                 ELSE Err(DynErr("NoId"))
        ELSE LET dynamic_id == trim(pipe_split[1])
                 default_case == trim(pipe_split[2])
             IN  IF is_empty(dynamic_id) /\ is_empty(default_case)
                 THEN Err(DynErr("EmptyBraces"))
                 ELSE IF is_empty(dynamic_id) THEN Err(DynErr("NoId"))
                 ELSE IF is_empty(default_case) THEN Err(DynErr("NoDefaultCase"))
                 ELSE IF \/ is_numeric(CharAt(dynamic_id, 1))
                         \/ from_kv(key, dynamic_id).ok
                 THEN Err(DynErr("InvalidId"))
                 ELSE LET default_case_parsed == from_kv(key, default_case)
                      IN  IF default_case_parsed.ok
                          THEN Ok(Dynamic(dynamic_id, default_case_parsed.val))
                          ELSE Err(DynUnexpectedValue(default_case_parsed.val))

\* The (true, true) arm: value starts and ends with the braces.
DynamicArm(key, value0) ==
    LET value == trim(trim_right_matches(trim_left_matches(value0, START_BRACE),
                                         END_BRACE))
        pipe_split == splitn2(value, "|")
    IN  IF Len(pipe_split) = 1
        THEN LET id == pipe_split[1]
             IN  IF is_empty(trim(id)) THEN Err(DynErr("EmptyBraces"))
                 ELSE IF from_kv(key, id).ok THEN Err(DynErr("NoId"))
                 ELSE Err(DynErr("NoDefaultCase"))
        ELSE LET dynamic_id == trim(pipe_split[1])
                 default_case == trim(pipe_split[2])
             IN  IF is_empty(dynamic_id) /\ is_empty(default_case)
                 THEN Err(DynErr("EmptyBraces"))
                 ELSE IF is_empty(dynamic_id) THEN Err(DynErr("NoId"))
                 ELSE IF is_empty(default_case) THEN Err(DynErr("NoDefaultCase"))
                 ELSE IF \/ is_numeric(CharAt(dynamic_id, 1))
                         \/ from_kv(key, dynamic_id).ok
                 THEN Err(DynErr("InvalidId"))
                 ELSE LET default_case_parsed == from_kv(key, default_case)
                      IN  IF default_case_parsed.ok
                          THEN Ok(Dynamic(dynamic_id, default_case_parsed.val))
                          ELSE Err(DynUnexpectedValue(default_case_parsed.val))

\* Mutant: a value with only one of the two wrappers is parsed as a literal.
determine_UnclosedAsStatic(key0, value0) ==
    LET key == trim(key0)
        value == trim(value0)
        is_starting_with_braces == starts_with(value, START_BRACE)
        is_ending_with_braces == ends_with(value, END_BRACE)
    IN  IF is_starting_with_braces /\ is_ending_with_braces
        THEN DynamicArm(key, value)
        ELSE LET p == from_kv(key, value)
             IN  IF p.ok THEN Ok(Static(p.val))
                 ELSE Err(DynUnexpectedValue(p.val))

\* Mutant: the literal is parsed from the key and value as given, untrimmed.
determine_NoTrim(key0, value0) ==
    LET key == trim(key0)
        value == trim(value0)
        is_starting_with_braces == starts_with(value, START_BRACE)
        is_ending_with_braces == ends_with(value, END_BRACE)
    IN  IF is_starting_with_braces # is_ending_with_braces
        THEN Err(DynErr("UnclosedBraces"))
        ELSE IF is_starting_with_braces
        THEN DynamicArm(key, value)
        ELSE LET p == from_kv(key0, value0)
             IN  IF p.ok THEN Ok(Static(p.val))
                 ELSE Err(DynUnexpectedValue(p.val))

determine_static_or_dynamic_css_property(key0, value0) ==
    LET key == trim(key0)
        value == trim(value0)
        is_starting_with_braces == starts_with(value, START_BRACE)
        is_ending_with_braces == ends_with(value, END_BRACE)
    IN  IF is_starting_with_braces # is_ending_with_braces
        THEN Err(DynErr("UnclosedBraces"))
        ELSE IF is_starting_with_braces
        THEN DynamicArm(key, value)
        ELSE LET p == from_kv(key, value)
             IN  IF p.ok THEN Ok(Static(p.val))
                 ELSE Err(DynUnexpectedValue(p.val))

(***************************************************************************)
(* CssParseError, CssRule and Css.                                         *)
(***************************************************************************)

ParseError(e) == <<"ParseError", e>>
UnclosedBlock == <<"UnclosedBlock">>
MalformedCss == <<"MalformedCss">>
\* impl From<DynamicCssParseError> for CssParseError
DynamicCssParseError(e) == <<"DynamicCssParseError", e>>

\* FastHashMap: a function on its keys.
EmptyMap == << >>
MapInsert(m, k, v) == [j \in DOMAIN m \cup {k} |-> IF j = k THEN v ELSE m[j]]

CssRule(html_type, id, classes, declaration) ==
    [html_type |-> html_type, id |-> id, classes |-> classes,
     declaration |-> declaration]

Css(path, override_native, rules, overrides, needs_relayout) ==
    [hot_reload_path |-> path,
     hot_reload_override_native |-> override_native,
     rules |-> rules,
     dynamic_css_overrides |-> overrides,
     needs_relayout |-> needs_relayout]

(***************************************************************************)
(* usize.  The counter of new_from_str is 64 bits wide; TLC's integers are *)
(* 32 bits wide, so the model keeps the wrap-around at 2^30.  No stream    *)
(* of the model is long enough to count that far upwards.                  *)
(***************************************************************************)

UsizeModulus == 2^30

(***************************************************************************)
(* HashSet<&str> and Vec<String>::sort.                                    *)
(***************************************************************************)

\* The least string of a non-empty set.
MinStr(S) == CHOOSE m \in S : \A o \in S : o = m \/ StrLess(m, o)

\* The i-th string (from 0) of S in ascending order.
RECURSIVE NthStr(_, _)
NthStr(S, i) == IF i = 0 THEN MinStr(S) ELSE NthStr(S \ {MinStr(S)}, i - 1)

\* HashSet::iter: the elements in an order the hasher's random state picks;
\* every order of S is the order of some seed.
RECURSIVE HashSetIter(_, _)
HashSetIter(S, seed) ==
    IF S = {} THEN << >>
    ELSE LET n == Cardinality(S)
             e == NthStr(S, seed % n)
         IN  <<e>> \o HashSetIter(S \ {e}, seed \div n)

\* One step of an insertion sort: e put before the first element above it.
RECURSIVE InsertSorted(_, _)
InsertSorted(e, v) ==
    IF Len(v) = 0 THEN <<e>>
    ELSE IF StrLess(e, Head(v)) THEN <<e>> \o v
    ELSE <<Head(v)>> \o InsertSorted(e, Tail(v))

\* Vec<String>::sort
RECURSIVE Sort(_)
Sort(v) == IF Len(v) = 0 THEN << >> ELSE InsertSorted(Head(v), Sort(Tail(v)))

(***************************************************************************)
(* simplecss::Token.  A token is [t, a, b]: the variant, and its one or    *)
(* two string arguments ("" when it has none).  "Error" stands for the     *)
(* Err(e) result of Tokenizer::parse_next, with a the syntax error.        *)
(***************************************************************************)

Token(t, a, b) == [t |-> t, a |-> a, b |-> b]

EndOfStream == Token("EndOfStream", "", "")
BlockStart == Token("BlockStart", "", "")
BlockEnd == Token("BlockEnd", "", "")
\* One of the variants the match leaves to its `_ => { }` arm.
Comma == Token("Comma", "", "")
TypeSelector(n) == Token("TypeSelector", n, "")
IdSelector(n) == Token("IdSelector", n, "")
ClassSelector(n) == Token("ClassSelector", n, "")
PseudoClass(n) == Token("PseudoClass", n, "")
Declaration(key, val) == Token("Declaration", key, val)
TokenizerError(e) == Token("Error", e, "")

(***************************************************************************)
(* Css::new_from_str: the locals of the function and one operator per arm  *)
(* of the match on the next token.  ret is the function's outcome: Running *)
(* while the loop runs, Returned(result) after a return, Panicked after a  *)
(* panic.                                                                  *)
(***************************************************************************)

Running == <<"Running">>
Returned(r) == <<"Returned", r>>
Panicked == <<"Panicked">>

NewParser ==
    [block_nesting |-> 0,
     css_rules |-> << >>,
     parser_in_block |-> FALSE,
     current_type |-> "*",
     current_id |-> None,
     current_classes |-> {},
     current_pseudo_selector |-> None,
     ret |-> Running]

\* Mutant: the brace check reads the inside-block flag, not the counter.
AfterLoop_ChecksFlag(p) ==
    IF p.parser_in_block
    THEN [p EXCEPT !.ret = Returned(Err(UnclosedBlock))]
    ELSE [p EXCEPT !.ret =
            Returned(Ok(Css(None, FALSE, p.css_rules, EmptyMap, TRUE)))]

\* Mutant: a stylesheet without rules asks for no relayout.
AfterLoop_RelayoutIfRules(p) ==
    IF p.block_nesting # 0
    THEN [p EXCEPT !.ret = Returned(Err(UnclosedBlock))]
    ELSE [p EXCEPT !.ret =
            Returned(Ok(Css(None, FALSE, p.css_rules, EmptyMap,
                            p.css_rules # << >>)))]

\* Mutant: the parsed stylesheet asks for no relayout.
AfterLoop_NoRelayout(p) ==
    IF p.block_nesting # 0
    THEN [p EXCEPT !.ret = Returned(Err(UnclosedBlock))]
    ELSE [p EXCEPT !.ret =
            Returned(Ok(Css(None, FALSE, p.css_rules, EmptyMap, FALSE)))]

\* The code after the loop: the brace check and the Ok(Self { .. }).
AfterLoop(p) ==
    IF p.block_nesting # 0
    THEN [p EXCEPT !.ret = Returned(Err(UnclosedBlock))]
    ELSE [p EXCEPT !.ret =
            Returned(Ok(Css(None, FALSE, p.css_rules, EmptyMap, TRUE)))]

\* Token::EndOfStream => break
OnEndOfStream(p) == AfterLoop(p)

OnBlockStart(p) ==
    [p EXCEPT !.parser_in_block = TRUE,
              !.block_nesting = (p.block_nesting + 1) % UsizeModulus]

\* Mutant: BlockEnd leaves the pseudo-class of the closed block in place.
OnBlockEnd_KeepsPseudo(p, checks) ==
    IF p.block_nesting = 0 /\ checks
    THEN [p EXCEPT !.ret = Panicked]
    ELSE [p EXCEPT !.block_nesting = (p.block_nesting - 1) % UsizeModulus,
                   !.parser_in_block = FALSE,
                   !.current_type = "*",
                   !.current_id = None,
                   !.current_classes = {}]

\* block_nesting -= 1 at 0 panics in a build with overflow checks and wraps
\* in a build without them.
OnBlockEnd(p, checks) ==
    IF p.block_nesting = 0 /\ checks
    THEN [p EXCEPT !.ret = Panicked]
    ELSE [p EXCEPT !.block_nesting = (p.block_nesting - 1) % UsizeModulus,
                   !.parser_in_block = FALSE,
                   !.current_type = "*",
                   !.current_id = None,
                   !.current_classes = {},
                   !.current_pseudo_selector = None]

OnTypeSelector(p, div_type) ==
    IF p.parser_in_block
    THEN [p EXCEPT !.ret = Returned(Err(MalformedCss))]
    ELSE [p EXCEPT !.current_type = div_type]

OnIdSelector(p, id) ==
    IF p.parser_in_block
    THEN [p EXCEPT !.ret = Returned(Err(MalformedCss))]
    ELSE [p EXCEPT !.current_id = Some(id)]

OnClassSelector(p, class) ==
    IF p.parser_in_block
    THEN [p EXCEPT !.ret = Returned(Err(MalformedCss))]
    ELSE [p EXCEPT !.current_classes = p.current_classes \cup {class}]

\* Mutant: a pseudo-class is taken inside a block too.
OnPseudoClass_NoCheck(p, pseudo_class) ==
    [p EXCEPT !.current_pseudo_selector = Some(pseudo_class)]

OnPseudoClass(p, pseudo_class) ==
    IF p.parser_in_block
    THEN [p EXCEPT !.ret = Returned(Err(MalformedCss))]
    ELSE [p EXCEPT !.current_pseudo_selector = Some(pseudo_class)]

\* Mutant: the classes are left in the set's iteration order.
BuildRule_NoSort(p, key, css_decl, seed) ==
    CssRule(p.current_type, p.current_id,
            HashSetIter(p.current_classes, seed),
            <<key, css_decl>>)

\* The rule of one declaration: the selector snapshot, the classes collected
\* in the set's iteration order and then sorted.
BuildRule(p, key, css_decl, seed) ==
    CssRule(p.current_type, p.current_id,
            Sort(HashSetIter(p.current_classes, seed)),
            <<key, css_decl>>)

\* Mutant: the new rule is put in front of the list.
PushRule_Front(css_rules, css_rule) == <<css_rule>> \o css_rules

\* css_rules.push(css_rule)
PushRule(css_rules, css_rule) == Append(css_rules, css_rule)

\* Mutant: a declaration whose value is in error is skipped and the loop
\* goes on.
OnDeclaration_SkipsBadValue(p, key, val, seed) ==
    IF ~p.parser_in_block
    THEN [p EXCEPT !.ret = Returned(Err(MalformedCss))]
    ELSE IF is_some(p.current_pseudo_selector)
    THEN p
    ELSE LET css_decl == determine_static_or_dynamic_css_property(key, val)
         IN  IF ~css_decl.ok
             THEN p
             ELSE [p EXCEPT !.css_rules =
                     PushRule(p.css_rules, BuildRule(p, key, css_decl.val, seed))]

\* Mutant: a declaration under a pseudo-class is resolved like any other.
OnDeclaration_NoPseudoSkip(p, key, val, seed) ==
    IF ~p.parser_in_block
    THEN [p EXCEPT !.ret = Returned(Err(MalformedCss))]
    ELSE LET css_decl == determine_static_or_dynamic_css_property(key, val)
         IN  IF ~css_decl.ok
             THEN [p EXCEPT !.ret =
                     Returned(Err(DynamicCssParseError(css_decl.val)))]
             ELSE [p EXCEPT !.css_rules =
                     PushRule(p.css_rules, BuildRule(p, key, css_decl.val, seed))]

OnDeclaration(p, key, val, seed) ==
    IF ~p.parser_in_block
    THEN [p EXCEPT !.ret = Returned(Err(MalformedCss))]
    ELSE IF is_some(p.current_pseudo_selector)
    THEN p
    ELSE LET css_decl == determine_static_or_dynamic_css_property(key, val)
         IN  IF ~css_decl.ok
             THEN [p EXCEPT !.ret =
                     Returned(Err(DynamicCssParseError(css_decl.val)))]
             ELSE [p EXCEPT !.css_rules =
                     PushRule(p.css_rules, BuildRule(p, key, css_decl.val, seed))]

OnTokenizerError(p, e) == [p EXCEPT !.ret = Returned(Err(ParseError(e)))]

\* One iteration of the loop on token tok.
Step(p, tok, seed, checks) ==
    CASE tok.t = "EndOfStream" -> OnEndOfStream(p)
      [] tok.t = "BlockStart" -> OnBlockStart(p)
      [] tok.t = "BlockEnd" -> OnBlockEnd(p, checks)
      [] tok.t = "TypeSelector" -> OnTypeSelector(p, tok.a)
      [] tok.t = "IdSelector" -> OnIdSelector(p, tok.a)
      [] tok.t = "ClassSelector" -> OnClassSelector(p, tok.a)
      [] tok.t = "Declaration" -> OnDeclaration(p, tok.a, tok.b, seed)
      [] tok.t = "PseudoClass" -> OnPseudoClass(p, tok.a)
      [] tok.t = "Error" -> OnTokenizerError(p, tok.a)
      [] OTHER -> p

(***************************************************************************)
(* The inputs of the model.                                                *)
(***************************************************************************)

\* The longest token stream the rule builder is run on.
MaxTokens == 6
\* The seeds of the hasher: 0..MaxSeed, enough for every order of two classes.
MaxSeed == 1

TypeNames == {"div"}
IdNames == {"x"}
ClassNames == {"a", "b"}
PseudoNames == {"hover"}
DeclarationTexts ==
    { <<"text-align", " center ">>,
      <<"width", "[[ w | 400px ]]">>,
      <<"width", "[[ 400px">>,
      <<"text-align", "hello">> }

Tokens ==
    {EndOfStream, BlockStart, BlockEnd, Comma, TokenizerError("UnknownToken")}
    \cup {TypeSelector(n) : n \in TypeNames}
    \cup {IdSelector(n) : n \in IdNames}
    \cup {ClassSelector(n) : n \in ClassNames}
    \cup {PseudoClass(n) : n \in PseudoNames}
    \cup {Declaration(d[1], d[2]) : d \in DeclarationTexts}

\* The hasher's random state matters to a token only if it builds a rule.
SeedsFor(tok) == IF tok.t = "Declaration" THEN 0..MaxSeed ELSE {0}

(***************************************************************************)
(* Css::new_from_str as a whole: the loop run over a token stream until it *)
(* returns or panics.  Every stream ends with EndOfStream or an error.     *)
(***************************************************************************)

RECURSIVE RunLoop(_, _, _, _)
RunLoop(p, toks, seed, checks) ==
    IF p.ret # Running \/ Len(toks) = 0 THEN p
    ELSE RunLoop(Step(p, Head(toks), seed, checks), Tail(toks), seed, checks)

\* Returned(Ok(css)), Returned(Err(e)) or Panicked.
new_from_str(toks, seed, checks) == RunLoop(NewParser, toks, seed, checks).ret

(***************************************************************************)
(* The texts of the model, each as the token stream the tokenizer yields   *)
(* for it.                                                                 *)
(***************************************************************************)

\* NATIVE_CSS, without its EndOfStream: div { text-align: left }
NATIVE_CSS ==
    <<TypeSelector("div"), BlockStart, Declaration("text-align", "left"),
      BlockEnd>>

\* format!("{}\r\n{}", NATIVE_CSS, text)
AppendToNative(text) == NATIVE_CSS \o text

Texts ==
    { \* div { width: [[ w | 400px ]] }
      <<TypeSelector("div"), BlockStart, Declaration("width", "[[ w | 400px ]]"),
        BlockEnd, EndOfStream>>,
      \* .b.a { text-align: center }
      <<ClassSelector("b"), ClassSelector("a"), BlockStart,
        Declaration("text-align", " center "), BlockEnd, EndOfStream>>,
      \* #x { text-align: hello }
      <<IdSelector("x"), BlockStart, Declaration("text-align", "hello"),
        BlockEnd, EndOfStream>>,
      \* } {
      <<BlockEnd, BlockStart, EndOfStream>> }

\* The path the stylesheet is hot-reloaded from.
Paths == {"style.css"}

\* fs::read_to_string: Some(text), or None for an I/O error.
FileContents == {None} \cup {Some(t) : t \in Texts}

(***************************************************************************)
(* Css: the constructors and reload_css.                                   *)
(***************************************************************************)

\* Css::empty
empty == Css(None, FALSE, << >>, EmptyMap, FALSE)

\* Css::hot_reload and Css::hot_reload_override_native, after the file was
\* read: the stylesheet, or "panic" when the text does not parse.
hot_reload_from(file_path, text, override_native, seed, checks) ==
    LET r == new_from_str(IF override_native THEN AppendToNative(text) ELSE text,
                          seed, checks)
    IN  IF r = Panicked \/ ~r[2].ok THEN Panicked
        ELSE Returned(Ok([r[2].val EXCEPT
                 !.hot_reload_path = Some(file_path),
                 !.hot_reload_override_native = override_native]))

\* Mutant: self is emptied before the text is parsed, so a parse error
\* leaves it empty.
reload_css_ClearsFirst(self, file, seed, checks) ==
    IF ~is_some(self.hot_reload_path)
    THEN [self |-> self, outcome |-> "no_path"]
    ELSE IF ~is_some(file)
    THEN [self |-> self, outcome |-> "io_error"]
    ELSE LET reloaded_css == unwrap(file)
             target_css == IF self.hot_reload_override_native
                           THEN AppendToNative(reloaded_css)
                           ELSE reloaded_css
             r == new_from_str(target_css, seed, checks)
         IN  IF r = Panicked THEN [self |-> self, outcome |-> "panic"]
             ELSE IF ~r[2].ok
             THEN [self |-> [self EXCEPT !.rules = << >>],
                   outcome |-> "parse_error"]
             ELSE [self |-> [r[2].val EXCEPT
                       !.hot_reload_path = self.hot_reload_path,
                       !.dynamic_css_overrides = self.dynamic_css_overrides,
                       !.hot_reload_override_native =
                           self.hot_reload_override_native],
                   outcome |-> "ok"]

\* Mutant: the overrides are not copied to the parsed stylesheet.
reload_css_DropsOverrides(self, file, seed, checks) ==
    IF ~is_some(self.hot_reload_path)
    THEN [self |-> self, outcome |-> "no_path"]
    ELSE IF ~is_some(file)
    THEN [self |-> self, outcome |-> "io_error"]
    ELSE LET reloaded_css == unwrap(file)
             target_css == IF self.hot_reload_override_native
                           THEN AppendToNative(reloaded_css)
                           ELSE reloaded_css
             r == new_from_str(target_css, seed, checks)
         IN  IF r = Panicked THEN [self |-> self, outcome |-> "panic"]
             ELSE IF ~r[2].ok THEN [self |-> self, outcome |-> "parse_error"]
             ELSE [self |-> [r[2].val EXCEPT
                       !.hot_reload_path = self.hot_reload_path,
                       !.hot_reload_override_native =
                           self.hot_reload_override_native],
                   outcome |-> "ok"]

\* Css::reload_css on self, with file the result of reading the file:
\* the new self and which way the call went.
reload_css(self, file, seed, checks) ==
    IF ~is_some(self.hot_reload_path)
    THEN [self |-> self, outcome |-> "no_path"]
    ELSE IF ~is_some(file)
    THEN [self |-> self, outcome |-> "io_error"]
    ELSE LET reloaded_css == unwrap(file)
             target_css == IF self.hot_reload_override_native
                           THEN AppendToNative(reloaded_css)
                           ELSE reloaded_css
             r == new_from_str(target_css, seed, checks)
         IN  IF r = Panicked THEN [self |-> self, outcome |-> "panic"]
             ELSE IF ~r[2].ok THEN [self |-> self, outcome |-> "parse_error"]
             ELSE [self |-> [r[2].val EXCEPT
                       !.hot_reload_path = self.hot_reload_path,
                       !.dynamic_css_overrides = self.dynamic_css_overrides,
                       !.hot_reload_override_native =
                           self.hot_reload_override_native],
                   outcome |-> "ok"]

(***************************************************************************)
(* FakeCss.                                                                *)
(***************************************************************************)

\* IntoParsedCssProperty for a (key, value) pair of strings.
into_parsed_css_property(css_value) == from_kv(css_value[1], css_value[2])

\* Mutant: an id that has an entry keeps it (entry(id).or_insert(value)).
set_dynamic_property_KeepsEntry(overrides, id, css_value) ==
    LET value == into_parsed_css_property(css_value)
    IN  IF ~value.ok
        THEN [overrides |-> overrides, result |-> Err(value.val)]
        ELSE [overrides |-> IF id \in DOMAIN overrides THEN overrides
                            ELSE MapInsert(overrides, id, value.val),
              result |-> Ok(<< >>)]

\* FakeCss::set_dynamic_property on the mapping: the mapping afterwards and
\* the Result returned.
set_dynamic_property(overrides, id, css_value) ==
    LET value == into_parsed_css_property(css_value)
    IN  IF ~value.ok
        THEN [overrides |-> overrides, result |-> Err(value.val)]
        ELSE [overrides |-> MapInsert(overrides, id, value.val),
              result |-> Ok(<< >>)]

\* Mutant: clear drops only the overrides that are not of kind Width.
clear_KeepsWidths(overrides) ==
    [id \in {j \in DOMAIN overrides : KindOf(overrides[j]) = "Width"}
        |-> overrides[id]]

\* FakeCss::clear on the mapping: the mapping afterwards.
clear(overrides) == EmptyMap

DynamicIds == {"w", "v"}
CssValues ==
    { <<"width", "10px">>, <<"text-align", "center">>, <<"width", "wide">> }

(***************************************************************************)
(* State.                                                                  *)
(*   parser           the locals of the running Css::new_from_str          *)
(*   consumed         the tokens parse_next has handed out so far          *)
(*   overflow_checks  whether the build checks integer overflow            *)
(*   css              the application's Css, None before it is built       *)
(*   fake_css         FakeCss::dynamic_css_overrides                       *)
(*   disk             what reading the hot-reload file gives               *)
(*   crashed          the process has panicked                             *)
(*   last_call        the last call made: its name, the object before it,  *)
(*                    its arguments and how it went                        *)
(*   set_since_clear  the ids set_dynamic_property has succeeded for since *)
(*                    the last FakeCss::clear (history variable)           *)
(*   det              a call of determine_static_or_dynamic_css_property:  *)
(*                    its key, its value and, once it has run, its result  *)
(***************************************************************************)
VARIABLES parser, consumed, input, overflow_checks, css, fake_css, disk,
          crashed, last_call, set_since_clear, det

vars == <<parser, consumed, input, overflow_checks, css, fake_css, disk,
          crashed, last_call, set_since_clear, det>>

parser_vars == <<parser, consumed, input>>
app_vars == <<css, fake_css, disk, crashed, last_call, set_since_clear>>

\* No call of the resolver is under way.
NoDet == [key |-> "", value |-> "", result |-> None]

Call(op, before, args, outcome) ==
    [op |-> op, before |-> before, args |-> args, outcome |-> outcome]

NoCall == Call("", None, None, "")

\* A call of Css::new_from_str starts; the application has built nothing.
Init ==
    /\ parser = NewParser
    /\ consumed = << >>
    /\ input = << >>
    /\ overflow_checks \in BOOLEAN
    /\ css = None
    /\ fake_css = EmptyMap
    /\ disk = None
    /\ crashed = FALSE
    /\ last_call = NoCall
    /\ set_since_clear = {}
    /\ det = NoDet

\* One iteration of the loop: parse_next hands out a token, the match acts.
ParseNext ==
    /\ parser.ret = Running
    /\ Len(consumed) < MaxTokens
    /\ \E tok \in Tokens :
        \E seed \in SeedsFor(tok) :
            /\ parser' = Step(parser, tok, seed, overflow_checks)
            /\ consumed' = Append(consumed, tok)
    /\ UNCHANGED <<input, overflow_checks, app_vars, det>>

Next == ParseNext

Spec == Init /\ [][Next]_vars

(***************************************************************************)
(* The application: it builds a Css, edits the file, reloads, and sets and *)
(* clears the frame's overrides.                                           *)
(***************************************************************************)

\* let css = Css::empty();
CssEmpty ==
    /\ ~crashed
    /\ css' = Some(empty)
    /\ last_call' = Call("empty", None, None, "ok")
    /\ UNCHANGED <<parser_vars, det, overflow_checks, fake_css, set_since_clear, disk, crashed>>

\* A call of new_from_str that returns r or panics, made as call op.
Construct(op, r) ==
    /\ last_call' = Call(op, None, None,
                         IF r = Panicked THEN "panic"
                         ELSE IF r[2].ok THEN "ok" ELSE "error")
    /\ crashed' = (r = Panicked)
    /\ css' = IF r # Panicked /\ r[2].ok THEN Some(r[2].val) ELSE css

\* let css = Css::new_from_str(text)?;
CssNewFromStr ==
    /\ ~crashed
    /\ \E text \in Texts, seed \in 0..MaxSeed :
        Construct("new_from_str", new_from_str(text, seed, overflow_checks))
    /\ UNCHANGED <<parser_vars, det, overflow_checks, fake_css, set_since_clear, disk>>

\* let css = Css::native();
CssNative ==
    /\ ~crashed
    /\ \E seed \in 0..MaxSeed :
        LET r == new_from_str(Append(NATIVE_CSS, EndOfStream), seed,
                              overflow_checks)
        IN  \* .unwrap()
            Construct("native", IF r # Panicked /\ r[2].ok THEN r ELSE Panicked)
    /\ UNCHANGED <<parser_vars, det, overflow_checks, fake_css, set_since_clear, disk>>

\* let css = Css::hot_reload(path)?; or Css::hot_reload_override_native(path)?;
CssHotReload ==
    /\ ~crashed
    /\ \E file_path \in Paths, override_native \in BOOLEAN, seed \in 0..MaxSeed :
        LET op == IF override_native THEN "hot_reload_override_native"
                  ELSE "hot_reload"
        IN  IF ~is_some(disk)
            THEN /\ last_call' = Call(op, None, None, "io_error")
                 /\ UNCHANGED <<css, crashed>>
            ELSE Construct(op, hot_reload_from(file_path, unwrap(disk),
                                               override_native, seed,
                                               overflow_checks))
    /\ UNCHANGED <<parser_vars, det, overflow_checks, fake_css, set_since_clear, disk>>

\* css.reload_css();
ReloadCss ==
    /\ ~crashed
    /\ is_some(css)
    /\ \E seed \in 0..MaxSeed :
        LET r == reload_css(unwrap(css), disk, seed, overflow_checks)
        IN  /\ css' = Some(r.self)
            /\ crashed' = (r.outcome = "panic")
            /\ last_call' = Call("reload_css", css, None, r.outcome)
    /\ UNCHANGED <<parser_vars, det, overflow_checks, fake_css, set_since_clear, disk>>

\* The stylesheet file is edited, removed or made unreadable.
WriteFile ==
    /\ ~crashed
    /\ \E f \in FileContents : f # disk /\ disk' = f
    /\ last_call' = NoCall
    /\ UNCHANGED <<parser_vars, det, overflow_checks, css, fake_css,
                   set_since_clear, crashed>>

\* fake_css.set_dynamic_property(id, css_value)
SetDynamicProperty ==
    /\ ~crashed
    /\ \E id \in DynamicIds, css_value \in CssValues :
        LET r == set_dynamic_property(fake_css, id, css_value)
        IN  /\ fake_css' = r.overrides
            /\ last_call' = Call("set_dynamic_property", fake_css,
                                 <<id, css_value>>, r.result)
            /\ set_since_clear' = IF r.result.ok
                                  THEN set_since_clear \cup {id}
                                  ELSE set_since_clear
    /\ UNCHANGED <<parser_vars, det, overflow_checks, css, disk, crashed>>

\* fake_css.clear()
Clear ==
    /\ ~crashed
    /\ fake_css' = clear(fake_css)
    /\ last_call' = Call("clear", fake_css, None, "ok")
    /\ set_since_clear' = {}
    /\ UNCHANGED <<parser_vars, det, overflow_checks, css, disk, crashed>>

\* The frame loop hands the frame's overrides to the stylesheet
\* (Css::dynamic_css_overrides is pub(crate)).
SetFrameOverrides ==
    /\ ~crashed
    /\ is_some(css)
    /\ unwrap(css).dynamic_css_overrides # fake_css
    /\ css' = Some([unwrap(css) EXCEPT !.dynamic_css_overrides = fake_css])
    /\ last_call' = NoCall
    /\ UNCHANGED <<parser_vars, det, overflow_checks, fake_css, set_since_clear, disk, crashed>>

AppNext ==
    \/ CssEmpty
    \/ CssNewFromStr
    \/ CssNative
    \/ CssHotReload
    \/ ReloadCss
    \/ WriteFile
    \/ SetDynamicProperty
    \/ Clear
    \/ SetFrameOverrides

\* The application starts with some file on disk, or none.
AppInit ==
    /\ parser = NewParser
    /\ consumed = << >>
    /\ input = << >>
    /\ overflow_checks \in BOOLEAN
    /\ css = None
    /\ fake_css = EmptyMap
    /\ disk \in FileContents
    /\ crashed = FALSE
    /\ last_call = NoCall
    /\ set_since_clear = {}
    /\ det = NoDet

AppSpec == AppInit /\ [][AppNext]_vars

(***************************************************************************)
(* determine_static_or_dynamic_css_property on its own: a key and a value  *)
(* are drawn, then the function runs on them.  The values are built from   *)
(* an opening part, an id part, a separator, a default part and a closing  *)
(* part.                                                                   *)
(***************************************************************************)

DetKeys == {"text-align", " width ", "color"}
DetOpenings == {"", " ", "[[", " [[ ", "[[[["}
DetIdParts == {"", " ", "hello", "400px", "center", "4x"}
DetSeparators == {"", "|", " | ", "||"}
DetDefaultParts == {"", "center", "hello", "400px", " 10px "}
DetClosings == {"", " ", "]]", " ]] ", "]]]]"}

DetValues ==
    {o \o i \o p \o d \o c :
        o \in DetOpenings, i \in DetIdParts, p \in DetSeparators,
        d \in DetDefaultParts, c \in DetClosings}

DetInit ==
    /\ parser = NewParser
    /\ consumed = << >>
    /\ input = << >>
    /\ overflow_checks = FALSE
    /\ css = None
    /\ fake_css = EmptyMap
    /\ disk = None
    /\ crashed = FALSE
    /\ last_call = NoCall
    /\ set_since_clear = {}
    /\ \E key \in DetKeys, value \in DetValues :
           det = [key |-> key, value |-> value, result |-> None]

\* determine_static_or_dynamic_css_property(key, value) runs.
Determine ==
    /\ det # NoDet
    /\ det.result = None
    /\ det' = [det EXCEPT !.result =
                 Some(determine_static_or_dynamic_css_property(det.key, det.value))]
    /\ UNCHANGED <<parser_vars, overflow_checks, app_vars>>

DetNext == Determine

DetSpec == DetInit /\ [][DetNext]_vars

(***************************************************************************)
(* The loop of Css::new_from_str over a given finite token stream: the     *)
(* tokenizer hands out the tokens of input one by one, and the stream ends *)
(* with EndOfStream or with a tokenizer error.  The loop body always runs  *)
(* to its end, hence the weak fairness of the step.                        *)
(***************************************************************************)

MaxStream == 3

EndTokens == {t \in Tokens : t.t \in {"EndOfStream", "Error"}}
InnerTokens == Tokens \ EndTokens

Streams ==
    UNION {{Append(s, e) : s \in [1..n -> InnerTokens], e \in EndTokens} :
              n \in 0..(MaxStream - 1)}

LoopInit ==
    /\ parser = NewParser
    /\ consumed = << >>
    /\ input \in Streams
    /\ overflow_checks \in BOOLEAN
    /\ css = None
    /\ fake_css = EmptyMap
    /\ disk = None
    /\ crashed = FALSE
    /\ last_call = NoCall
    /\ set_since_clear = {}
    /\ det = NoDet

\* One iteration of the loop on the next token of the stream.
NextToken ==
    /\ parser.ret = Running
    /\ Len(consumed) < Len(input)
    /\ LET tok == input[Len(consumed) + 1]
       IN  \E seed \in SeedsFor(tok) :
               /\ parser' = Step(parser, tok, seed, overflow_checks)
               /\ consumed' = Append(consumed, tok)
    /\ UNCHANGED <<input, overflow_checks, app_vars, det>>

LoopNext == NextToken

LoopSpec == LoopInit /\ [][LoopNext]_vars /\ WF_vars(NextToken)

(***************************************************************************)
(* What the consumed tokens say, read off the token history alone.         *)
(***************************************************************************)

SelectorKinds == {"TypeSelector", "IdSelector", "ClassSelector", "PseudoClass"}

Range(v) == {v[i] : i \in 1..Len(v)}

\* The greatest index below i of a token whose variant is in kinds, or 0.
LastBefore(toks, i, kinds) ==
    LET J == {j \in 1..(i - 1) : toks[j].t \in kinds}
    IN  IF J = {} THEN 0 ELSE CHOOSE j \in J : \A o \in J : o <= j

\* Token i is met inside a declaration block: the last brace before it opens.
InBlockBefore(toks, i) ==
    LET j == LastBefore(toks, i, {"BlockStart", "BlockEnd"})
    IN  j > 0 /\ toks[j].t = "BlockStart"

\* The indices of the selector context of token i: after the most recent
\* BlockEnd (or the start of the stream) and before i.
ContextOf(toks, i) == (LastBefore(toks, i, {"BlockEnd"}) + 1)..(i - 1)

PseudoActiveBefore(toks, i) ==
    \E j \in ContextOf(toks, i) : toks[j].t = "PseudoClass"

TypeSince(toks, i) ==
    LET J == {j \in ContextOf(toks, i) : toks[j].t = "TypeSelector"}
    IN  IF J = {} THEN "*" ELSE toks[CHOOSE j \in J : \A o \in J : o <= j].a

IdSince(toks, i) ==
    LET J == {j \in ContextOf(toks, i) : toks[j].t = "IdSelector"}
    IN  IF J = {} THEN None
        ELSE Some(toks[CHOOSE j \in J : \A o \in J : o <= j].a)

ClassesSince(toks, i) ==
    {toks[j].a : j \in {k \in ContextOf(toks, i) : toks[k].t = "ClassSelector"}}

CountOf(toks, kind) == Cardinality({j \in 1..Len(toks) : toks[j].t = kind})

\* The indices, ascending, of the Declaration tokens met with no active
\* pseudo-class among the first n tokens.
RECURSIVE EmittingDeclarations(_, _)
EmittingDeclarations(toks, n) ==
    IF n = 0 THEN << >>
    ELSE IF toks[n].t = "Declaration" /\ ~PseudoActiveBefore(toks, n)
    THEN Append(EmittingDeclarations(toks, n - 1), n)
    ELSE EmittingDeclarations(toks, n - 1)

\* Token i is a selector token inside a block or a declaration outside one.
MalformedAt(toks, i) ==
    \/ toks[i].t \in SelectorKinds /\ InBlockBefore(toks, i)
    \/ toks[i].t = "Declaration" /\ ~InBlockBefore(toks, i)

\* The error of token i, if it is erroneous where it stands.
TokenError(toks, i) ==
    IF toks[i].t = "Error" THEN Some(ParseError(toks[i].a))
    ELSE IF MalformedAt(toks, i) THEN Some(MalformedCss)
    ELSE IF toks[i].t = "Declaration" /\ ~PseudoActiveBefore(toks, i)
    THEN LET d == determine_static_or_dynamic_css_property(toks[i].a, toks[i].b)
         IN  IF d.ok THEN None ELSE Some(DynamicCssParseError(d.val))
    ELSE None

StrictlyAscending(v) == \A i \in 1..(Len(v) - 1) : StrLess(v[i], v[i + 1])

ReturnedOk == parser.ret[1] = "Returned" /\ parser.ret[2].ok
ReturnedErr == parser.ret[1] = "Returned" /\ ~parser.ret[2].ok

\* The rules of the returned stylesheet, or the rules built so far.
Rules == IF ReturnedOk THEN parser.ret[2].val.rules ELSE parser.css_rules

(***************************************************************************)
(* Claims on the rule builder.                                             *)
(***************************************************************************)

\* C1: the parse has ended with MalformedCss exactly when the last token
\* consumed is a TypeSelector, IdSelector, ClassSelector or PseudoClass met
\* inside a block, or a Declaration met outside one.
C1_MalformedCssExactly ==
    LET n == Len(consumed)
    IN  (parser.ret = Returned(Err(MalformedCss)))
            <=> (n > 0 /\ MalformedAt(consumed, n))

C1_Witness ==
    /\ parser.ret = Returned(Err(MalformedCss))
    /\ consumed[Len(consumed)].t = "PseudoClass"
    /\ CountOf(consumed, "Declaration") = 1

\* C2: once EndOfStream is consumed, the result is UnclosedBlock if the
\* BlockStart tokens seen minus the BlockEnd tokens seen is not 0, and a
\* stylesheet if it is 0.
C2_EndOfStreamResult ==
    LET n == Len(consumed)
    IN  (n > 0 /\ consumed[n].t = "EndOfStream") =>
            IF CountOf(consumed, "BlockStart") - CountOf(consumed, "BlockEnd") # 0
            THEN parser.ret = Returned(Err(UnclosedBlock))
            ELSE ReturnedOk

C2_Witness ==
    /\ parser.ret = Returned(Err(UnclosedBlock))
    /\ CountOf(consumed, "BlockStart") = 2
    /\ CountOf(consumed, "BlockEnd") = 1
    /\ ~parser.parser_in_block

\* C3: a stylesheet holds one rule per Declaration token met with no active
\* pseudo-class, in the order of those tokens, each with its token's key, and
\* the rules of declarations with no BlockEnd between them have the same
\* html_type, id and classes.
C3_OneRulePerDeclaration ==
    ReturnedOk =>
        LET idx == EmittingDeclarations(consumed, Len(consumed))
            rules == parser.ret[2].val.rules
        IN  /\ Len(rules) = Len(idx)
            /\ \A k \in 1..Len(idx) :
                   rules[k].declaration[1] = consumed[idx[k]].a
            /\ \A k \in 1..Len(idx), m \in 1..Len(idx) :
                   (k < m /\ \A j \in idx[k]..idx[m] : consumed[j].t # "BlockEnd")
                   => /\ rules[k].html_type = rules[m].html_type
                      /\ rules[k].id = rules[m].id
                      /\ rules[k].classes = rules[m].classes

C3_Witness ==
    /\ ReturnedOk
    /\ Len(parser.ret[2].val.rules) = 2
    /\ parser.ret[2].val.rules[1].declaration[1] = "width"
    /\ parser.ret[2].val.rules[2].declaration[1] = "text-align"
    /\ parser.ret[2].val.rules[2].html_type = "div"
    /\ CountOf(consumed, "BlockEnd") = 1

\* C4: the classes of every rule are in strictly ascending order (sorted, no
\* duplicates) and are the classes of the ClassSelector tokens of the rule's
\* selector, whatever their order and repetition.
C4_ClassesSorted ==
    (ReturnedOk \/ parser.ret = Running) =>
        LET idx == EmittingDeclarations(consumed, Len(consumed))
        IN  \A k \in 1..Len(Rules) :
                /\ StrictlyAscending(Rules[k].classes)
                /\ k <= Len(idx) =>
                       Range(Rules[k].classes) = ClassesSince(consumed, idx[k])

C4_Witness ==
    /\ ReturnedOk
    /\ Len(parser.ret[2].val.rules) = 1
    /\ parser.ret[2].val.rules[1].classes = <<"a", "b">>
    /\ consumed[1] = ClassSelector("b")
    /\ consumed[2] = ClassSelector("a")

\* C5: after a BlockEnd the accumulated selector is the default one, and every
\* rule carries the type, id and classes of the selector tokens seen since the
\* most recent BlockEnd before its declaration ("*", None and no classes when
\* there are none); a declaration is skipped only for a pseudo-class seen
\* since that BlockEnd.
C5_BlockEndResets ==
    (ReturnedOk \/ parser.ret = Running) =>
        LET n == Len(consumed)
            idx == EmittingDeclarations(consumed, n)
        IN  /\ (n > 0 /\ consumed[n].t = "BlockEnd") =>
                   /\ parser.current_type = "*"
                   /\ parser.current_id = None
                   /\ parser.current_classes = {}
                   /\ parser.current_pseudo_selector = None
            /\ Len(Rules) = Len(idx)
            /\ \A k \in 1..Len(idx) :
                   /\ Rules[k].html_type = TypeSince(consumed, idx[k])
                   /\ Rules[k].id = IdSince(consumed, idx[k])
                   /\ Range(Rules[k].classes) = ClassesSince(consumed, idx[k])

C5_Witness ==
    /\ parser.ret = Running
    /\ Len(consumed) = 6
    /\ consumed[1].t \in {"TypeSelector", "IdSelector", "ClassSelector"}
    /\ consumed[2].t = "PseudoClass"
    /\ consumed[4].t = "BlockEnd"
    /\ consumed[6].t = "Declaration"
    /\ Len(parser.css_rules) = 1
    /\ parser.css_rules[1].html_type = "*"
    /\ parser.css_rules[1].id = None
    /\ parser.css_rules[1].classes = << >>

\* C6: a returned error other than UnclosedBlock is the error of the last
\* token consumed; an erroneous token is the last one consumed and its error
\* is what the parse returned, so no token before it is erroneous, none after
\* it is consumed, and no stylesheet is returned.
C6_FirstErrorAborts ==
    LET n == Len(consumed)
    IN  /\ \A i \in 1..n :
               is_some(TokenError(consumed, i)) =>
                   /\ i = n
                   /\ parser.ret = Returned(Err(unwrap(TokenError(consumed, i))))
        /\ (ReturnedErr /\ parser.ret[2].val # UnclosedBlock) =>
               /\ n > 0
               /\ is_some(TokenError(consumed, n))
        /\ ReturnedOk => consumed[n].t = "EndOfStream"

C6_Witness ==
    /\ ReturnedErr
    /\ parser.ret[2].val = DynamicCssParseError(DynErr("UnclosedBraces"))
    /\ Len(parser.css_rules) = 2

(***************************************************************************)
(* Claims on reload_css and FakeCss, under AppSpec.                        *)
(***************************************************************************)

\* The text reload_css parses for stylesheet self when the file holds text.
TargetOf(self, text) ==
    IF self.hot_reload_override_native THEN AppendToNative(text) ELSE text

\* The text does not parse: new_from_str returns an error.
ParseFails(text) ==
    \A seed \in 0..MaxSeed :
        LET r == new_from_str(text, seed, overflow_checks)
        IN  r # Panicked /\ ~r[2].ok

\* C7: if reload_css fails because the file cannot be read or because its
\* text does not parse, the stylesheet (rules, needs_relayout, overrides,
\* hot-reload path and append-to-native flag) is what it was before the call.
C7_ReloadFailureKeepsCss ==
    (/\ last_call.op = "reload_css"
     /\ is_some(unwrap(last_call.before).hot_reload_path)
     /\ \/ disk = None
        \/ ParseFails(TargetOf(unwrap(last_call.before), unwrap(disk))))
    => css = last_call.before

C7_Witness ==
    /\ last_call.op = "reload_css"
    /\ last_call.outcome = "parse_error"
    /\ css = last_call.before
    /\ Len(unwrap(css).rules) = 2
    /\ unwrap(css).hot_reload_override_native
    /\ DOMAIN unwrap(css).dynamic_css_overrides = {"w"}

\* C8: after a successful reload_css the override mapping, the hot-reload
\* path and the append-to-native flag are those of before the call, the
\* rules are those of the text just parsed and needs_relayout is true.
C8_ReloadSuccessPreserves ==
    (last_call.op = "reload_css" /\ last_call.outcome = "ok") =>
        LET before == unwrap(last_call.before)
            now == unwrap(css)
            parsed == new_from_str(TargetOf(before, unwrap(disk)), 0,
                                   overflow_checks)
        IN  /\ now.dynamic_css_overrides = before.dynamic_css_overrides
            /\ now.hot_reload_path = before.hot_reload_path
            /\ now.hot_reload_override_native = before.hot_reload_override_native
            /\ now.rules = parsed[2].val.rules
            /\ now.needs_relayout

C8_Witness ==
    /\ last_call.op = "reload_css"
    /\ last_call.outcome = "ok"
    /\ unwrap(css).rules # unwrap(last_call.before).rules
    /\ unwrap(css).hot_reload_override_native
    /\ DOMAIN unwrap(css).dynamic_css_overrides = {"w", "v"}

\* C9: the override stored for an id has the property kind of the default
\* of every Dynamic declaration of the stylesheet with that id.
C9_OverrideKindMatchesDefault ==
    is_some(css) =>
        \A k \in 1..Len(unwrap(css).rules) :
            LET decl == unwrap(css).rules[k].declaration[2]
            IN  (decl.variant = "Dynamic" /\ decl.dynamic_id \in DOMAIN fake_css)
                => KindOf(fake_css[decl.dynamic_id]) = KindOf(decl.prop)

\* C10: after set_dynamic_property(id, value), when the value parses the
\* mapping holds the parsed value under id and every other id's entry is
\* what it was; when it does not, the typed parser's error is returned and
\* the mapping is what it was.
C10_SetDynamicProperty ==
    last_call.op = "set_dynamic_property" =>
        LET before == last_call.before
            id == last_call.args[1]
            parsed == from_kv(last_call.args[2][1], last_call.args[2][2])
        IN  IF parsed.ok
            THEN /\ last_call.outcome = Ok(<< >>)
                 /\ DOMAIN fake_css = DOMAIN before \cup {id}
                 /\ fake_css[id] = parsed.val
                 /\ \A o \in DOMAIN before \ {id} : fake_css[o] = before[o]
            ELSE /\ last_call.outcome = Err(parsed.val)
                 /\ fake_css = before

C10_Witness ==
    /\ last_call.op = "set_dynamic_property"
    /\ last_call.outcome = Ok(<< >>)
    /\ DOMAIN last_call.before = {"w", "v"}
    /\ last_call.args[1] = "w"
    /\ KindOf(last_call.before["w"]) = "TextAlign"
    /\ KindOf(fake_css["w"]) = "Width"

\* C11: the mapping holds an override only for an id set_dynamic_property
\* has succeeded for since the most recent clear, and clear leaves the
\* mapping empty.
C11_ClearEmptiesOverrides ==
    /\ DOMAIN fake_css \subseteq set_since_clear
    /\ last_call.op = "clear" => fake_css = EmptyMap

C11_Witness ==
    /\ last_call.op = "clear"
    /\ DOMAIN last_call.before = {"w", "v"}
    /\ KindOf(last_call.before["w"]) = "Width"
    /\ fake_css = EmptyMap

(***************************************************************************)
(* Claims on determine_static_or_dynamic_css_property, under DetSpec.      *)
(* The texts of a value are read off the value here by position, not by    *)
(* the operators of the function.                                          *)
(***************************************************************************)

MinOf(S) == CHOOSE m \in S : \A o \in S : m <= o
MaxOf(S) == CHOOSE m \in S : \A o \in S : o <= m

\* s without its leading and trailing spaces.
Trimmed(s) ==
    LET N == {i \in 1..Len(s) : CharAt(s, i) # " "}
    IN  IF N = {} THEN "" ELSE SubSeq(s, MinOf(N), MaxOf(N))

StartsOpen(v) == Len(v) >= 2 /\ CharAt(v, 1) = "[" /\ CharAt(v, 2) = "["
EndsClose(v) ==
    Len(v) >= 2 /\ CharAt(v, Len(v)) = "]" /\ CharAt(v, Len(v) - 1) = "]"

\* The number of characters c at the start of s.
LeadingRun(s, c) ==
    LET N == {i \in 1..Len(s) : CharAt(s, i) # c}
    IN  IF N = {} THEN Len(s) ELSE MinOf(N) - 1

\* The number of characters c at the end of s.
TrailingRun(s, c) ==
    LET N == {i \in 1..Len(s) : CharAt(s, i) # c}
    IN  IF N = {} THEN Len(s) ELSE Len(s) - MaxOf(N)

\* The inner text of a wrapped value v: v without its opening pairs "[[",
\* then without its closing pairs "]]", then trimmed.
InnerText(v) ==
    LET l == SubSeq(v, 2 * (LeadingRun(v, "[") \div 2) + 1, Len(v))
        r == SubSeq(l, 1, Len(l) - 2 * (TrailingRun(l, "]") \div 2))
    IN  Trimmed(r)

\* The position of the first "|" of s, or 0.
FirstPipe(s) ==
    LET N == {i \in 1..Len(s) : CharAt(s, i) = "|"}
    IN  IF N = {} THEN 0 ELSE MinOf(N)

DetDone == det.result # None
DetResult == unwrap(det.result)
DetKey == Trimmed(det.key)
DetValue == Trimmed(det.value)
DetWrapped == StartsOpen(DetValue) /\ EndsClose(DetValue)
DetId == Trimmed(SubSeq(InnerText(DetValue), 1, FirstPipe(InnerText(DetValue)) - 1))
DetDefault ==
    Trimmed(SubSeq(InnerText(DetValue), FirstPipe(InnerText(DetValue)) + 1,
                   Len(InnerText(DetValue))))

\* C12: the result is UnclosedBraces exactly when the trimmed value starts
\* with "[[" or ends with "]]" but not both.
C12_UnclosedBracesExactly ==
    DetDone =>
        ((DetResult = Err(DynErr("UnclosedBraces")))
            <=> (StartsOpen(DetValue) # EndsClose(DetValue)))

C12_Witness ==
    /\ DetDone
    /\ DetResult = Err(DynErr("UnclosedBraces"))
    /\ ~StartsOpen(DetValue)
    /\ EndsClose(DetValue)
    /\ FirstPipe(det.value) > 0

\* C13: for a wrapped value whose inner text has a "|", with id and default
\* the trimmed texts before and after the first "|": both empty gives
\* EmptyBraces; only id empty gives NoId; only default empty gives
\* NoDefaultCase; an id that starts with a numeric character or parses as a
\* value of the key gives InvalidId; a default that does not parse gives
\* UnexpectedValue with the parser's error; otherwise the result is Dynamic
\* with that id and the parsed default.
C13_DynamicWithSeparator ==
    (DetDone /\ DetWrapped /\ FirstPipe(InnerText(DetValue)) > 0) =>
        DetResult =
            IF DetId = "" /\ DetDefault = "" THEN Err(<<"EmptyBraces">>)
            ELSE IF DetId = "" THEN Err(<<"NoId">>)
            ELSE IF DetDefault = "" THEN Err(<<"NoDefaultCase">>)
            ELSE IF \/ is_numeric(CharAt(DetId, 1))
                    \/ from_kv(DetKey, DetId).ok
            THEN Err(<<"InvalidId">>)
            ELSE IF ~from_kv(DetKey, DetDefault).ok
            THEN Err(<<"UnexpectedValue", from_kv(DetKey, DetDefault).val>>)
            ELSE Ok([variant |-> "Dynamic", dynamic_id |-> DetId,
                     prop |-> from_kv(DetKey, DetDefault).val])

C13_Witness ==
    /\ DetDone
    /\ det.key = " width "
    /\ det.value = " [[ hello |  10px  ]] "
    /\ DetResult = Ok(Dynamic("hello", <<"Width", "10px">>))

\* C14: for a wrapped value whose inner text has no "|", the result is
\* EmptyBraces when the inner text is empty, NoId when it parses as a value
\* of the key and NoDefaultCase when it does not; it is never a declaration.
C14_DynamicWithoutSeparator ==
    (DetDone /\ DetWrapped /\ FirstPipe(InnerText(DetValue)) = 0) =>
        DetResult =
            IF InnerText(DetValue) = "" THEN Err(<<"EmptyBraces">>)
            ELSE IF from_kv(DetKey, InnerText(DetValue)).ok THEN Err(<<"NoId">>)
            ELSE Err(<<"NoDefaultCase">>)

C14_Witness ==
    /\ DetDone
    /\ det.key = "text-align"
    /\ det.value = "[[center]]"
    /\ DetResult = Err(DynErr("NoId"))

C16_NewFromStrForcesRelayout ==
    ReturnedOk =>
        /\ parser.ret[2].val.needs_relayout = TRUE
        /\ parser.ret[2].val.dynamic_css_overrides = EmptyMap

C16_Witness ==
    /\ ReturnedOk
    /\ consumed = <<EndOfStream>>
    /\ parser.ret[2].val.rules = << >>
    /\ parser.ret[2].val.needs_relayout = TRUE

Constructors ==
    {"new_from_str", "native", "hot_reload", "hot_reload_override_native"}

\* C17 as claimed: after every constructor, Css::empty included, and after
\* every replacement of the rules by reload_css, needs_relayout is true.
C17_RelayoutAfterEveryConstructor ==
    (/\ last_call.op \in Constructors \cup {"empty", "reload_css"}
     /\ last_call.outcome = "ok")
        => unwrap(css).needs_relayout = TRUE

\* C17: needs_relayout is true after construction by new_from_str, native,
\* hot_reload and hot_reload_override_native and after every replacement of
\* the rules by reload_css; Css::empty constructs a stylesheet with
\* needs_relayout = false.
C17_RelayoutAfterParse ==
    /\ (/\ last_call.op \in Constructors \cup {"reload_css"}
        /\ last_call.outcome = "ok")
            => unwrap(css).needs_relayout = TRUE
    /\ last_call.op = "empty" => unwrap(css).needs_relayout = FALSE

C17_Witness ==
    /\ last_call.op = "reload_css"
    /\ last_call.outcome = "ok"
    /\ unwrap(css).rules # unwrap(last_call.before).rules
    /\ unwrap(css).needs_relayout = TRUE

\* The last consumed token is a Declaration met after a PseudoClass token of
\* the current selector.
DeclarationUnderPseudo ==
    /\ Len(consumed) > 0
    /\ consumed[Len(consumed)].t = "Declaration"
    /\ PseudoActiveBefore(consumed, Len(consumed))

\* The last consumed token was skipped: no error, the loop goes on, and the
\* rules are those of the declarations before it.
LastTokenSkipped ==
    /\ parser.ret = Running
    /\ Len(parser.css_rules) =
           Len(EmittingDeclarations(consumed, Len(consumed) - 1))

\* C18 as claimed: once a PseudoClass token has been seen for the current
\* selector, every Declaration token up to the next BlockEnd is skipped.
C18_PseudoSkipsEveryDeclaration == DeclarationUnderPseudo => LastTokenSkipped

\* C18: once a PseudoClass token has been seen for the current selector,
\* every Declaration token met inside a block up to the next BlockEnd is
\* skipped: it adds no rule and raises no error, whatever its key and value,
\* and the parse goes on with the next token.
C18_PseudoSkipsDeclarationsInBlock ==
    (DeclarationUnderPseudo /\ InBlockBefore(consumed, Len(consumed)))
        => LastTokenSkipped

C18_Witness ==
    /\ Len(consumed) = 4
    /\ consumed[1].t = "PseudoClass"
    /\ consumed[2].t = "BlockStart"
    /\ consumed[3] = Declaration("text-align", "hello")
    /\ consumed[4] = Declaration("width", "[[ 400px")
    /\ parser.ret = Running
    /\ parser.css_rules = << >>

\* The tokens of variant kind among the first n consumed.
CountUpTo(n, kind) == CountOf(SubSeq(consumed, 1, n), kind)

\* C19: new_from_str never fails fatally; a BlockEnd at depth 0 takes the
\* counter neither into a panic nor around to the top of its range, and a
\* stream with a BlockEnd before its BlockStart is not accepted.
C19_NoUnderflow ==
    /\ parser.ret # Panicked
    /\ parser.block_nesting <= Len(consumed)
    /\ ReturnedOk =>
            \A n \in 1..Len(consumed) :
                CountUpTo(n, "BlockEnd") <= CountUpTo(n, "BlockStart")

\* C20: the inside-block flag is true exactly when the nesting depth is
\* greater than 0.
C20_FlagIffNested == parser.parser_in_block <=> parser.block_nesting > 0

\* C21: over a finite token stream that ends with EndOfStream or a tokenizer
\* error the loop consumes the tokens once each and in order, and it ends in
\* a returned stylesheet or a returned error: at every moment the result is
\* one of the two, or the loop is running with a token of the stream left
\* to consume (so that, the step being fair, it ends after at most
\* Len(input) steps).
C21_LoopTerminates ==
    /\ Len(consumed) <= Len(input)
    /\ consumed = SubSeq(input, 1, Len(consumed))
    /\ \/ ReturnedOk
       \/ ReturnedErr
       \/ parser.ret = Running /\ Len(consumed) < Len(input)
====
